---------------------------- MODULE Spec2Model ----------------------------
(***************************************************************************)
(* Model of the Ansible module zabbix_user (src/modules/zabbix_user.py):   *)
(* one process invocation after another of main(), each a sequence of      *)
(* remote calls to the Zabbix API, against a remote user table that other  *)
(* actors may change between any two calls.                                *)
(*                                                                         *)
(* Python values are tagged pairs <<type, text>>, so that str(50) = "50"   *)
(* and the integer 50 are different values, as they are for Python's ==.   *)
(* A dict is a function from its keys; a list is a sequence.               *)
(***************************************************************************)
EXTENDS Integers, Sequences, FiniteSets, TLC

VARIABLES
    remote,      \* the server's user table: a sequence of rows (dicts)
    srv,         \* how this server answers user.get (see ServerKinds)
    pc,          \* position of the running invocation
    inp,         \* module.params and check_mode of the running invocation
    session,     \* zbx.login succeeded and zbx.logout is not yet called
    atexit,      \* zbx.logout is registered with atexit
    params,      \* update_user's dict `params` (nstate is the same object)
    uid,         \* the id _get_user_id resolved for the next call
    cstate,      \* the record fetched by _get_user_state, "medias" renamed
    outcome,     \* what the invocation reported (exit_json / fail_json)
    calls,       \* remote calls issued by the running invocation, in order
    faulted,     \* some remote call of the running invocation raised
    interfered,  \* another actor changed the table during the invocation
    remote0,     \* the table when the running invocation started
    prev,        \* the invocation that finished last, when no call of it
                 \* raised, no other actor interfered and the running one
                 \* is comparable with it (see Comparable); NoRun otherwise
    runs,        \* invocations started so far
    envsteps     \* changes made by other actors so far

vars == <<remote, srv, pc, inp, session, atexit, params, uid, cstate,
          outcome, calls, faulted, interfered, remote0, prev, runs, envsteps>>

(***************************************************************************)
(* Bounds of the model.                                                    *)
(***************************************************************************)
MaxRuns == 2
MaxEnv == 1

(***************************************************************************)
(* Python values.                                                          *)
(***************************************************************************)
StrVal(s) == <<"str", s>>
IntVal(s) == <<"int", s>>
NoneVal == <<"NoneType", "None">>

\* str(x): the text of x as a str; str("7") = "7", str(7) = "7".
PyStr(x) == <<"str", x[2]>>

NoDict == <<>>

DelKey(d, k) == [j \in DOMAIN d \ {k} |-> d[j]]

HasKey(d, k) == k \in DOMAIN d

\* d with d[k] = v, whether or not k was a key.
SetKey(d, k, v) == [j \in DOMAIN d \cup {k} |-> IF j = k THEN v ELSE d[j]]

\* An optional list parameter: a list, or None when the option is omitted.
ListParam(items) == [py |-> "list", items |-> items]
NoneParam == [py |-> "NoneType", items |-> <<>>]


(***************************************************************************)
(* The inputs of an invocation: module.params as AnsibleModule hands them  *)
(* to main (argument_spec, lines 378-524), with the defaults it declares.  *)
(***************************************************************************)
Alias == "alice"

\* user_groups / user_medias entries as the caller writes them (integers).
Group7 == [usrgrpid |-> IntVal("7")]
Group8 == [usrgrpid |-> IntVal("8")]
Media1 == [mediatypeid |-> IntVal("1"), sendto |-> StrVal("a@x")]
Media2 == [mediatypeid |-> IntVal("2"), sendto |-> StrVal("b@x")]

ModuleParams(state, check, theme, password, groups, medias) ==
    [ state |-> state,
      check_mode |-> check,
      alias |-> StrVal(Alias),
      autologin |-> FALSE,
      autologout |-> StrVal("15m"),
      lang |-> StrVal("en_GB"),
      user_name |-> NoneVal,
      user_password |-> password,
      redirect_url |-> StrVal(""),
      refresh |-> StrVal("30s"),
      rows_per_page |-> IntVal("50"),
      user_surname |-> NoneVal,
      user_theme |-> StrVal(theme),
      user_type |-> IntVal("1"),
      user_groups |-> groups,
      user_medias |-> medias ]

\* The desired users the model draws from: <<theme, password, groups, medias>>.
Payloads ==
    { <<"default", StrVal("p@ss1"), ListParam(<<Group7>>), ListParam(<<Media1>>)>>,
      <<"dark-theme", StrVal("p@ss1"), ListParam(<<Group7>>), ListParam(<<Media1>>)>>,
      <<"default", StrVal("p@ss2"), ListParam(<<Group7>>), ListParam(<<Media1>>)>>,
      <<"default", StrVal("p@ss1"), ListParam(<<Group7>>), ListParam(<<>>)>>,
      <<"default", StrVal("p@ss1"), ListParam(<<Group7, Group8>>),
                                     ListParam(<<Media1, Media2>>)>>,
      <<"default", NoneVal, NoneParam, NoneParam>> }

\* state=absent reads nothing of the desired user but whether the two lists
\* were given, so it is drawn with the first payload and the bare one only.
AbsentPayloads ==
    { <<"default", StrVal("p@ss1"), ListParam(<<Group7>>), ListParam(<<Media1>>)>>,
      <<"default", NoneVal, NoneParam, NoneParam>> }

\* Check mode is drawn with the users that differ in a compared field.
CheckModePayloads ==
    { <<"default", StrVal("p@ss1"), ListParam(<<Group7>>), ListParam(<<Media1>>)>>,
      <<"dark-theme", StrVal("p@ss1"), ListParam(<<Group7>>), ListParam(<<Media1>>)>> }

Inputs ==
    { ModuleParams("present", FALSE, u[1], u[2], u[3], u[4]) : u \in Payloads }
    \cup
    { ModuleParams("present", TRUE, u[1], u[2], u[3], u[4]) : u \in CheckModePayloads }
    \cup
    { ModuleParams("absent", ck, u[1], u[2], u[3], u[4]) :
        ck \in BOOLEAN, u \in AbsentPayloads }

NoInput == ModuleParams("none", FALSE, "default", NoneVal, NoneParam, NoneParam)

(***************************************************************************)
(* main, lines 546-588: the locals main derives from module.params.        *)
(***************************************************************************)
\* lines 582-583: usrgrp_entry['usrgrpid'] = str(usrgrp_entry['usrgrpid'])
ConvertGroup(g) == [g EXCEPT !["usrgrpid"] = PyStr(g["usrgrpid"])]

\* lines 584-588: mediatypeid and severity become str where present
ConvertMedia(m) ==
    [k \in DOMAIN m |->
        IF k \in {"mediatypeid", "severity"} THEN PyStr(m[k]) ELSE m[k]]

\* Only evaluated when user_groups and user_medias are lists (the for loops
\* of lines 582 and 584 raise TypeError on None before anything is built).
MainLocals(p) ==
    [ alias |-> p.alias,
      autologin |-> IF p.autologin = FALSE THEN StrVal("0") ELSE StrVal("1"),
      autologout |-> p.autologout,
      lang |-> p.lang,
      redirect_url |-> p.redirect_url,
      refresh |-> p.refresh,
      rows_per_page |-> PyStr(p.rows_per_page),
      user_groups |-> [i \in 1..Len(p.user_groups.items) |->
                          ConvertGroup(p.user_groups.items[i])],
      user_medias |-> [i \in 1..Len(p.user_medias.items) |->
                          ConvertMedia(p.user_medias.items[i])],
      user_name |-> p.user_name,
      user_password |-> p.user_password,
      user_surname |-> p.user_surname,
      user_theme |-> p.user_theme,
      user_type |-> PyStr(p.user_type) ]

\* The redirect url takes the value of another local.
CreateParamsWrongUrl(a) ==
    [ alias |-> a.alias,
      autologin |-> a.autologin,
      autologout |-> a.autologout,
      lang |-> a.lang,
      name |-> a.user_name,
      passwd |-> a.user_password,
      refresh |-> a.refresh,
      url |-> a.refresh,
      rows_per_page |-> a.rows_per_page,
      surname |-> a.user_surname,
      theme |-> a.user_theme,
      type |-> a.user_type,
      usrgrps |-> a.user_groups,
      user_medias |-> a.user_medias ]

\* create_user, lines 280-295
CreateParams(a) ==
    [ alias |-> a.alias,
      autologin |-> a.autologin,
      autologout |-> a.autologout,
      lang |-> a.lang,
      name |-> a.user_name,
      passwd |-> a.user_password,
      refresh |-> a.refresh,
      url |-> a.redirect_url,
      rows_per_page |-> a.rows_per_page,
      surname |-> a.user_surname,
      theme |-> a.user_theme,
      type |-> a.user_type,
      usrgrps |-> a.user_groups,
      user_medias |-> a.user_medias ]

\* update_user, lines 334-350
UpdateParams(a, userid) == SetKey(CreateParams(a), "userid", userid)

\* update_user, lines 351-352: nstate = params; del nstate['passwd'].
\* nstate and params are one dict, so this is also what params holds after.
NState(ps) == DelKey(ps, "passwd")

\* _get_user_state, lines 248-261
OutputFields ==
    {"alias", "autologin", "autologout", "lang", "name", "passwd", "refresh",
     "url", "rows_per_page", "surname", "theme", "type"}

(***************************************************************************)
(* The remote service (zabbix_api's ZabbixAPI), as the calls of the module *)
(* use it.  A row of the table is what user.create / user.update stored,   *)
(* with the server's userid and the media list under "medias".             *)
(***************************************************************************)
\* What servers differ in when they answer user.get:
\*   "plain"  answers the requested fields as stored, without passwd;
\*   "passwd" also answers passwd when it is requested in "output";
\*   "native" answers numeric fields as numbers instead of strings;
\*   "extra"  adds a field the request did not name.
ServerKinds == {"plain", "passwd", "native", "extra"}

NumericFields == {"userid", "rows_per_page", "type", "usrgrpid", "mediatypeid", "severity"}

\* A dict as this server serialises it.
Serialise(kind, d) ==
    [k \in DOMAIN d |->
        IF kind = "native" /\ k \in NumericFields THEN IntVal(d[k][2]) ELSE d[k]]

Project(d, keys) == [k \in DOMAIN d \cap keys |-> d[k]]

Matching(tbl, alias) == SelectSeq(tbl, LAMBDA r : r["alias"] = alias)

\* user.get({"filter": {"alias": alias}}): the matching users, all fields.
Find(kind, tbl, alias) ==
    LET rows == Matching(tbl, alias)
    IN  [i \in 1..Len(rows) |-> Serialise(kind, DelKey(DelKey(rows[i], "usrgrps"), "medias"))]

\* user.get({"output": ..., "selectUsrgrps": ..., "selectMedias": ..., "userids": id})
Get(kind, tbl, output, grpkey, mediakeys, id) ==
    LET rows == SelectSeq(tbl, LAMBDA r : r["userid"][2] = id[2])
        scalars == ({"userid"} \cup output) \ (IF kind = "passwd" THEN {} ELSE {"passwd"})
        Answer(r) ==
            LET base == Serialise(kind, Project(r, scalars))
                grps == [i \in 1..Len(r["usrgrps"]) |->
                            Serialise(kind, Project(r["usrgrps"][i], {grpkey}))]
                meds == [i \in 1..Len(r["medias"]) |->
                            Serialise(kind, Project(r["medias"][i], mediakeys))]
                full == SetKey(SetKey(base, "usrgrps", grps), "medias", meds)
            IN  IF kind = "extra" THEN SetKey(full, "attempt_failed", StrVal("0")) ELSE full
    IN  [i \in 1..Len(rows) |-> Answer(rows[i])]

UsedIds(tbl) == {tbl[i]["userid"][2] : i \in 1..Len(tbl)}

IdTexts == <<"1", "2", "3", "4", "5", "6", "7", "8">>

FreshId(tbl) ==
    LET n == CHOOSE i \in 1..Len(IdTexts) :
                /\ IdTexts[i] \notin UsedIds(tbl)
                /\ \A j \in 1..(i - 1) : IdTexts[j] \in UsedIds(tbl)
    IN  StrVal(IdTexts[n])

\* The row the server keeps for a user created with `ps`.
StoredRow(ps, id) ==
    SetKey(SetKey(DelKey(ps, "user_medias"), "medias", ps["user_medias"]), "userid", id)

\* user.create(params)
Created(tbl, ps) == Append(tbl, StoredRow(ps, FreshId(tbl)))

\* user.update(params): the row with params' userid takes the fields sent.
Updated(tbl, ps) ==
    LET Merge(r) ==
            LET sent == DelKey(ps, "userid")
                keys == (DOMAIN r \cup DOMAIN sent \cup {"medias"}) \ {"user_medias"}
            IN  [k \in keys |->
                    IF k = "medias" /\ HasKey(sent, "user_medias") THEN sent["user_medias"]
                    ELSE IF HasKey(sent, k) THEN sent[k]
                    ELSE r[k]]
    IN  [i \in 1..Len(tbl) |->
            IF tbl[i]["userid"][2] = ps["userid"][2] THEN Merge(tbl[i]) ELSE tbl[i]]

\* user.delete([id])
Deleted(tbl, id) == SelectSeq(tbl, LAMBDA r : r["userid"][2] # id[2])

HasId(tbl, id) == id[2] \in UsedIds(tbl)

(***************************************************************************)
(* What an invocation reports, and the log of what it did.                 *)
(***************************************************************************)
NoOutcome == [kind |-> "none", changed |-> "unset", msg |-> ""]

\* module.exit_json(changed=...): ends the process (SystemExit).
ExitJson(changed, msg) == [kind |-> "exit_json", changed |-> changed, msg |-> msg]

\* module.fail_json(msg=...): ends the process (SystemExit, which the
\* `except Exception` clauses of the module do not catch); no `changed`.
FailJson(msg) == [kind |-> "fail_json", changed |-> "unset", msg |-> msg]

\* An exception no handler catches: the interpreter ends with a traceback.
Uncaught(msg) == [kind |-> "uncaught", changed |-> "unset", msg |-> msg]

Call(op, arg) == [op |-> op, arg |-> arg]

NoRun == [inp |-> NoInput, remote0 |-> <<>>, remoteEnd |-> <<>>, outcome |-> NoOutcome]

\* Python truth of a scalar: `if result`, `if uid`.
Truthy(x) == ~(x = NoneVal \/ x = StrVal("") \/ x = IntVal("0"))

\* The lookup loses its filter: the server answers with every user.
GetUserIdUnfiltered(kind, tbl, alias, raised) ==
    LET result == [i \in 1..Len(tbl) |-> Serialise(kind, Project(tbl[i], {"userid", "alias"}))]
    IN  IF raised THEN [ok |-> FALSE, uid |-> NoneVal, msg |-> "fail_get_id"]
        ELSE IF result # <<>> THEN [ok |-> TRUE, uid |-> result[1]["userid"], msg |-> ""]
        ELSE [ok |-> FALSE, uid |-> NoneVal, msg |-> "not_exists"]

\* An empty lookup is no failure: the function falls through and returns None.
GetUserIdReturnsNone(kind, tbl, alias, raised) ==
    LET result == Find(kind, tbl, alias)
    IN  IF raised THEN [ok |-> FALSE, uid |-> NoneVal, msg |-> "fail_get_id"]
        ELSE IF result # <<>> THEN [ok |-> TRUE, uid |-> result[1]["userid"], msg |-> ""]
        ELSE [ok |-> TRUE, uid |-> NoneVal, msg |-> ""]

\* _get_user_id, lines 222-240, given the answer to its user.get call.
GetUserId(kind, tbl, alias, raised) ==
    LET result == Find(kind, tbl, alias)
    IN  IF raised THEN [ok |-> FALSE, uid |-> NoneVal, msg |-> "fail_get_id"]
        ELSE IF result # <<>> THEN [ok |-> TRUE, uid |-> result[1]["userid"], msg |-> ""]
        ELSE [ok |-> FALSE, uid |-> NoneVal, msg |-> "not_exists"]

\* The two dicts are compared by identity: they are never the same object.
DictsAlwaysDiffer(c, n) == TRUE

\* Only the key sets are compared.
DictsDifferInKeys(c, n) == DOMAIN c # DOMAIN n

Occurrences(x, l) == Cardinality({i \in 1..Len(l) : l[i] = x})

\* Two lists hold the same entries, each as often, in whatever order.
SameEntries(l, m) ==
    /\ Len(l) = Len(m)
    /\ \A i \in 1..Len(l) : Occurrences(l[i], l) = Occurrences(l[i], m)

\* The group and media lists are compared without regard to order.
DictsDifferUnordered(c, n) ==
    \/ DOMAIN c # DOMAIN n
    \/ \E k \in DOMAIN c :
          IF k \in {"usrgrps", "user_medias"}
             THEN ~SameEntries(c[k], n[k])
             ELSE c[k] # n[k]

\* update_user, line 359: cstate != nstate (dict comparison: same keys, and
\* equal values under each key).
DictsDiffer(c, n) ==
    \/ DOMAIN c # DOMAIN n
    \/ \E k \in DOMAIN c : c[k] # n[k]

\* _get_user_state, line 244: list(medias[0].keys())
MediaKeys(medias) == DOMAIN medias[1]

(***************************************************************************)
(* Initial states: a table other tools filled, a server of some kind, and  *)
(* no invocation running.                                                  *)
(***************************************************************************)
UserRow(alias, theme, id) ==
    StoredRow(
        CreateParams(MainLocals(
            [ModuleParams("present", FALSE, theme, StrVal("p@ss1"),
                          ListParam(<<Group7>>), ListParam(<<Media1>>))
                EXCEPT !.alias = StrVal(alias)])),
        id)

\* Either no user at all, or the alias among other users.
InitTables ==
    { <<>>,
      <<UserRow("bob", "default", StrVal("1")), UserRow(Alias, "default", StrVal("2"))>> }

Init ==
    /\ remote \in InitTables
    /\ srv \in ServerKinds
    /\ pc = "idle"
    /\ inp = NoInput
    /\ session = FALSE
    /\ atexit = FALSE
    /\ params = NoDict
    /\ uid = NoneVal
    /\ cstate = NoDict
    /\ outcome = NoOutcome
    /\ calls = <<>>
    /\ faulted = FALSE
    /\ interfered = FALSE
    /\ remote0 = <<>>
    /\ prev = NoRun
    /\ runs = 0
    /\ envsteps = 0

(***************************************************************************)
(* The invocation, one action per stretch of code between remote calls.    *)
(***************************************************************************)
Report(o) == outcome' = o /\ pc' = "exit"

\* The log keeps the last invocation only for one that can be compared with
\* it: the same input but for check mode and password, started from the table
\* the last one started from or left.
Comparable(pv, p, tbl) ==
    /\ [pv.inp EXCEPT !.check_mode = FALSE, !.user_password = NoneVal]
          = [p EXCEPT !.check_mode = FALSE, !.user_password = NoneVal]
    /\ (pv.remote0 = tbl \/ pv.remoteEnd = tbl)

\* AnsibleModule(...) and main, lines 377-588: argument checks (required_if,
\* lines 525-533) and the conversion loops of lines 582-588.
Invoke(p) ==
    /\ pc = "idle"
    /\ runs < MaxRuns
    /\ runs' = runs + 1
    /\ inp' = p
    /\ remote0' = remote
    /\ calls' = <<>>
    /\ faulted' = FALSE
    /\ interfered' = FALSE
    /\ IF p.state = "present" /\ p.user_password = NoneVal
          THEN Report(FailJson("missing_required"))
       ELSE IF p.user_groups.py = "NoneType" \/ p.user_medias.py = "NoneType"
          THEN Report(Uncaught("TypeError"))
       ELSE outcome' = NoOutcome /\ pc' = "login"
    /\ prev' = IF Comparable(prev, p, remote) THEN prev ELSE NoRun
    /\ UNCHANGED <<remote, srv, session, atexit, params, uid, cstate, envsteps>>

\* main, lines 589-611: connect, log in, register the logout, and branch.
Login ==
    /\ pc = "login"
    /\ \E raised \in BOOLEAN :
          /\ calls' = Append(calls, Call("login", NoDict))
          /\ faulted' = (faulted \/ raised)
          /\ IF raised
                THEN /\ Report(FailJson("fail_connect"))
                     /\ UNCHANGED <<session, atexit>>
                ELSE /\ session' = TRUE
                     /\ atexit' = TRUE
                     /\ outcome' = outcome
                     /\ pc' = IF inp.state = "absent" THEN "delete_getid" ELSE "check_exist"
    /\ UNCHANGED <<remote, srv, inp, params, uid, cstate, interfered, remote0, prev,
                   runs, envsteps>>

\* A lookup that raises is taken for a lookup that found nothing.
CheckUserExistSwallows ==
    /\ pc = "check_exist"
    /\ \E raised \in BOOLEAN :
          /\ calls' = Append(calls, Call("find", [alias |-> inp.alias]))
          /\ faulted' = (faulted \/ raised)
          /\ outcome' = outcome
          /\ pc' = IF ~raised /\ Find(srv, remote, inp.alias) # <<>>
                      THEN "update_getid" ELSE "create"
    /\ UNCHANGED <<remote, srv, inp, session, atexit, params, uid, cstate, interfered,
                   remote0, prev, runs, envsteps>>

\* check_user_exist, lines 206-219, and the branch of line 611.
CheckUserExist ==
    /\ pc = "check_exist"
    /\ \E raised \in BOOLEAN :
          /\ calls' = Append(calls, Call("find", [alias |-> inp.alias]))
          /\ faulted' = (faulted \/ raised)
          /\ IF raised
                THEN Report(FailJson("fail_check_exist"))
                ELSE /\ outcome' = outcome
                     /\ pc' = IF Find(srv, remote, inp.alias) # <<>>
                                 THEN "update_getid" ELSE "create"
    /\ UNCHANGED <<remote, srv, inp, session, atexit, params, uid, cstate, interfered,
                   remote0, prev, runs, envsteps>>

\* The server refuses a second user with the same alias.
CreateRaises(tbl, ps, raised) == raised \/ Matching(tbl, ps["alias"]) # <<>>

\* Check mode reports that nothing would change.
CheckModeCreateUnchanged == ExitJson("false", "check_mode")

\* create_user, lines 278-279: self._module.exit_json(changed=True)
CheckModeCreate == ExitJson("true", "check_mode")

\* create_user, lines 274-304
CreateUser ==
    /\ pc = "create"
    /\ IF inp.check_mode
          THEN /\ Report(CheckModeCreate)
               /\ UNCHANGED <<remote, calls, faulted>>
          ELSE \E raised \in BOOLEAN :
                 LET ps == CreateParams(MainLocals(inp))
                     bad == CreateRaises(remote, ps, raised)
                 IN  /\ calls' = Append(calls, Call("create", ps))
                     /\ faulted' = (faulted \/ bad)
                     /\ remote' = IF bad THEN remote ELSE Created(remote, ps)
                     /\ Report(IF bad THEN FailJson("fail_create")
                                      ELSE ExitJson("true", "created"))
    /\ UNCHANGED <<srv, inp, session, atexit, params, uid, cstate, interfered, remote0,
                   prev, runs, envsteps>>

\* update_user, lines 333-353 up to the call of _get_user_state, and
\* _get_user_state's line 244.
UpdateGetId ==
    /\ pc = "update_getid"
    /\ \E raised \in BOOLEAN :
          LET r == GetUserId(srv, remote, inp.alias, raised)
              ps == NState(UpdateParams(MainLocals(inp), r.uid))
          IN  /\ calls' = Append(calls, Call("find", [alias |-> inp.alias]))
              /\ faulted' = (faulted \/ raised)
              /\ IF ~r.ok
                    THEN Report(FailJson(r.msg)) /\ UNCHANGED params
                 ELSE IF ps["user_medias"] = <<>>
                    THEN Report(FailJson("fail_update")) /\ params' = ps
                 ELSE outcome' = outcome /\ pc' = "state_getid" /\ params' = ps
    /\ UNCHANGED <<remote, srv, inp, session, atexit, uid, cstate, interfered, remote0,
                   prev, runs, envsteps>>

\* _get_user_state, line 264: the id of the user to fetch.
StateGetId ==
    /\ pc = "state_getid"
    /\ \E raised \in BOOLEAN :
          LET r == GetUserId(srv, remote, inp.alias, raised)
          IN  /\ calls' = Append(calls, Call("find", [alias |-> inp.alias]))
              /\ faulted' = (faulted \/ raised)
              /\ IF ~r.ok
                    THEN Report(FailJson(r.msg)) /\ UNCHANGED uid
                    ELSE outcome' = outcome /\ pc' = "state_fetch" /\ uid' = r.uid
    /\ UNCHANGED <<remote, srv, inp, session, atexit, params, cstate, interfered, remote0,
                   prev, runs, envsteps>>

\* update_user, line 354: cstate['user_medias'] = cstate.pop("medias")
RenameMedias(c) == SetKey(DelKey(c, "medias"), "user_medias", c["medias"])

\* _get_user_state, lines 245-271, and update_user, lines 354-359 and 365-369.
StateFetch ==
    /\ pc = "state_fetch"
    /\ \E raised \in BOOLEAN :
          LET keys == MediaKeys(params["user_medias"])
              result == Get(srv, remote, OutputFields, "usrgrpid", keys, uid)
          IN  /\ calls' = Append(calls, Call("get", [userids |-> uid, selectMedias |-> keys]))
              /\ faulted' = (faulted \/ raised)
              /\ IF raised \/ result = <<>>
                    THEN Report(FailJson("fail_get_state")) /\ UNCHANGED cstate
                 ELSE IF ~HasKey(result[1], "medias")
                    THEN Report(FailJson("fail_update")) /\ UNCHANGED cstate
                 ELSE /\ cstate' = RenameMedias(result[1])
                      /\ IF DictsDiffer(cstate', params)
                            THEN outcome' = outcome /\ pc' = "update_call"
                            ELSE Report(ExitJson("false", "nochange"))
    /\ UNCHANGED <<remote, srv, inp, session, atexit, params, uid, interfered, remote0,
                   prev, runs, envsteps>>

\* The server knows no user with the id sent.
NoSuchId(tbl, id, raised) == raised \/ ~HasId(tbl, id)

\* The update call sits in a try of its own whose handler only logs: the
\* success report that follows is reached whether or not the call raised.
UpdateCallReportsAnyway ==
    /\ pc = "update_call"
    /\ \E raised \in BOOLEAN :
          LET bad == NoSuchId(remote, params["userid"], raised)
          IN  /\ calls' = Append(calls, Call("update", params))
              /\ faulted' = (faulted \/ bad)
              /\ remote' = IF bad THEN remote ELSE Updated(remote, params)
              /\ Report(ExitJson("true", "updated"))
    /\ UNCHANGED <<srv, inp, session, atexit, params, uid, cstate, interfered, remote0,
                   prev, runs, envsteps>>

\* update_user, lines 360-364 and 370-373
UpdateCall ==
    /\ pc = "update_call"
    /\ \E raised \in BOOLEAN :
          LET bad == NoSuchId(remote, params["userid"], raised)
          IN  /\ calls' = Append(calls, Call("update", params))
              /\ faulted' = (faulted \/ bad)
              /\ remote' = IF bad THEN remote ELSE Updated(remote, params)
              /\ Report(IF bad THEN FailJson("fail_update")
                               ELSE ExitJson("true", "updated"))
    /\ UNCHANGED <<srv, inp, session, atexit, params, uid, cstate, interfered, remote0,
                   prev, runs, envsteps>>

\* delete_user, lines 307-310 and 320-323
DeleteGetId ==
    /\ pc = "delete_getid"
    /\ \E raised \in BOOLEAN :
          LET r == GetUserId(srv, remote, inp.alias, raised)
          IN  /\ calls' = Append(calls, Call("find", [alias |-> inp.alias]))
              /\ faulted' = (faulted \/ raised)
              /\ IF ~r.ok
                    THEN Report(FailJson(r.msg)) /\ UNCHANGED uid
                 ELSE IF ~Truthy(r.uid)
                    THEN Report(FailJson("not_exists")) /\ uid' = r.uid
                 ELSE outcome' = outcome /\ pc' = "delete_call" /\ uid' = r.uid
    /\ UNCHANGED <<remote, srv, inp, session, atexit, params, cstate, interfered, remote0,
                   prev, runs, envsteps>>

\* delete_user, lines 311-319 and 324-327
DeleteCall ==
    /\ pc = "delete_call"
    /\ \E raised \in BOOLEAN :
          LET id == PyStr(uid)
              bad == NoSuchId(remote, id, raised)
          IN  /\ calls' = Append(calls, Call("delete", [userid |-> id]))
              /\ faulted' = (faulted \/ bad)
              /\ remote' = IF bad THEN remote ELSE Deleted(remote, id)
              /\ Report(IF bad THEN FailJson("fail_remove")
                               ELSE ExitJson("true", "deleted"))
    /\ UNCHANGED <<srv, inp, session, atexit, params, uid, cstate, interfered, remote0,
                   prev, runs, envsteps>>

\* The logout is a statement at the end of the success path, not a handler.
AtExitOnSuccess ==
    /\ pc = "exit"
    /\ pc' = "ended"
    /\ calls' = IF atexit /\ outcome.kind = "exit_json"
                 THEN Append(calls, Call("logout", NoDict)) ELSE calls
    /\ session' = IF atexit /\ outcome.kind = "exit_json" THEN FALSE ELSE session
    /\ UNCHANGED <<remote, srv, inp, atexit, params, uid, cstate, outcome, faulted,
                   interfered, remote0, prev, runs, envsteps>>

\* The process ends: the handlers registered with atexit run (line 602).
AtExit ==
    /\ pc = "exit"
    /\ pc' = "ended"
    /\ calls' = IF atexit THEN Append(calls, Call("logout", NoDict)) ELSE calls
    /\ session' = IF atexit THEN FALSE ELSE session
    /\ UNCHANGED <<remote, srv, inp, atexit, params, uid, cstate, outcome, faulted,
                   interfered, remote0, prev, runs, envsteps>>

\* The process is gone; the next invocation is a new process.
Ended ==
    /\ pc = "ended"
    /\ prev' = IF faulted \/ interfered THEN NoRun
               ELSE [ inp |-> inp, remote0 |-> remote0, remoteEnd |-> remote,
                      outcome |-> outcome ]
    /\ pc' = "idle"
    /\ inp' = NoInput
    /\ session' = FALSE
    /\ atexit' = FALSE
    /\ params' = NoDict
    /\ uid' = NoneVal
    /\ cstate' = NoDict
    /\ outcome' = NoOutcome
    /\ calls' = <<>>
    /\ faulted' = FALSE
    /\ interfered' = FALSE
    /\ remote0' = <<>>
    /\ UNCHANGED <<remote, srv, runs, envsteps>>

(***************************************************************************)
(* Other actors on the same server.                                        *)
(***************************************************************************)
EnvRows(tbl) == { UserRow(Alias, "default", FreshId(tbl)) }

\* Other actors act between invocations and between the calls an invocation
\* makes on the table.  A change while the process starts up and logs in is
\* a change before it started; once the outcome is reported the process only
\* logs out.
EnvMayAct == envsteps < MaxEnv /\ pc \notin {"login", "exit", "ended"}

\* Another tool creates a user with the alias.
EnvAdd(row) ==
    /\ EnvMayAct
    /\ remote' = Append(remote, row)
    /\ envsteps' = envsteps + 1
    /\ interfered' = (interfered \/ pc # "idle")
    /\ UNCHANGED <<srv, pc, inp, session, atexit, params, uid, cstate, outcome, calls,
                   faulted, remote0, prev, runs>>

\* Another administrator deletes a user with the alias.
EnvRemove(i) ==
    /\ EnvMayAct
    /\ i \in 1..Len(remote)
    /\ remote[i]["alias"] = StrVal(Alias)
    /\ remote' = Deleted(remote, remote[i]["userid"])
    /\ envsteps' = envsteps + 1
    /\ interfered' = (interfered \/ pc # "idle")
    /\ UNCHANGED <<srv, pc, inp, session, atexit, params, uid, cstate, outcome, calls,
                   faulted, remote0, prev, runs>>

\* Another administrator changes the theme of a user with the alias.
EnvSetTheme(i, th) ==
    /\ EnvMayAct
    /\ i \in 1..Len(remote)
    /\ remote[i]["alias"] = StrVal(Alias)
    /\ remote[i]["theme"] # StrVal(th)
    /\ remote' = [remote EXCEPT ![i] = SetKey(remote[i], "theme", StrVal(th))]
    /\ envsteps' = envsteps + 1
    /\ interfered' = (interfered \/ pc # "idle")
    /\ UNCHANGED <<srv, pc, inp, session, atexit, params, uid, cstate, outcome, calls,
                   faulted, remote0, prev, runs>>

Reverse(l) == [i \in 1..Len(l) |-> l[Len(l) + 1 - i]]

\* Another administrator enters the groups (k = "usrgrps") or the medias
\* (k = "medias") of a user with the alias again, in another order.
EnvReorder(i, k) ==
    /\ EnvMayAct
    /\ i \in 1..Len(remote)
    /\ remote[i]["alias"] = StrVal(Alias)
    /\ Reverse(remote[i][k]) # remote[i][k]
    /\ remote' = [remote EXCEPT ![i] = SetKey(remote[i], k, Reverse(remote[i][k]))]
    /\ envsteps' = envsteps + 1
    /\ interfered' = (interfered \/ pc # "idle")
    /\ UNCHANGED <<srv, pc, inp, session, atexit, params, uid, cstate, outcome, calls,
                   faulted, remote0, prev, runs>>

Next ==
    \/ \E p \in Inputs : Invoke(p)
    \/ Login
    \/ CheckUserExist
    \/ CreateUser
    \/ UpdateGetId
    \/ StateGetId
    \/ StateFetch
    \/ UpdateCall
    \/ DeleteGetId
    \/ DeleteCall
    \/ AtExit
    \/ Ended
    \/ \E row \in EnvRows(remote) : EnvAdd(row)
    \/ \E i \in 1..Len(remote) : EnvRemove(i)
    \/ \E i \in 1..Len(remote), th \in {"default", "dark-theme"} : EnvSetTheme(i, th)
    \/ \E i \in 1..Len(remote), k \in {"usrgrps", "medias"} : EnvReorder(i, k)

Spec == Init /\ [][Next]_vars

(***************************************************************************)
(* Vocabulary of the properties.                                           *)
(***************************************************************************)
\* The invocation has reported its outcome (and may have logged out).
Reported == pc \in {"exit", "ended"}

Count(op) == Cardinality({i \in 1..Len(calls) : calls[i].op = op})

Mutating == {"create", "update", "delete"}

NoMutation == \A i \in 1..Len(calls) : calls[i].op \notin Mutating

\* The run reached its first lookup by alias, no call raised and no other
\* actor touched the table while it ran.
Undisturbed == Reported /\ Count("find") >= 1 /\ ~faulted /\ ~interfered

ExistedAtStart == Matching(remote0, inp.alias) # <<>>

(***************************************************************************)
(* C1: an invocation with lifecycle=absent for an alias with no remote     *)
(* match ends in success with changed=false, issues no delete call and no  *)
(* remote call beyond the single existence lookup, and reports no failure. *)
(* The code reports the failure "The user ... does not exists" instead.    *)
(***************************************************************************)
C1_AbsentOnMissingIsNoop ==
    (Undisturbed /\ inp.state = "absent" /\ ~ExistedAtStart)
        => /\ outcome.kind = "exit_json"
           /\ outcome.changed = "false"
           /\ Count("delete") = 0
           /\ Count("find") = 1
           /\ Count("get") = 0

(***************************************************************************)
(* C2: with check mode enabled no invocation ever issues a create, update  *)
(* or delete call.  The code consults check_mode in create_user only.      *)
(***************************************************************************)
C2_DryRunNeverMutates == inp.check_mode => NoMutation

(***************************************************************************)
(* The desired user in the server's vocabulary, written out field by field *)
(* from the module's documentation of its options: what the properties     *)
(* below expect to be sent and compared.                                   *)
(***************************************************************************)
Text(x) == x[2]

DesiredGroups(p) ==
    [i \in 1..Len(p.user_groups.items) |->
        [usrgrpid |-> StrVal(Text(p.user_groups.items[i]["usrgrpid"]))]]

DesiredMedias(p) ==
    [i \in 1..Len(p.user_medias.items) |->
        LET m == p.user_medias.items[i]
        IN  [k \in DOMAIN m |->
                IF k \in {"mediatypeid", "severity"} THEN StrVal(Text(m[k])) ELSE m[k]]]

DesiredFields(p) ==
    [ alias |-> p.alias,
      autologin |-> IF p.autologin THEN StrVal("1") ELSE StrVal("0"),
      autologout |-> p.autologout,
      lang |-> p.lang,
      name |-> p.user_name,
      passwd |-> p.user_password,
      refresh |-> p.refresh,
      url |-> p.redirect_url,
      rows_per_page |-> StrVal(Text(p.rows_per_page)),
      surname |-> p.user_surname,
      theme |-> p.user_theme,
      type |-> StrVal(Text(p.user_type)),
      usrgrps |-> DesiredGroups(p),
      user_medias |-> DesiredMedias(p) ]

\* The fields that take part in the comparison: all but the password.
Compared(p) == DelKey(DesiredFields(p), "passwd")

\* A complete desired user: a password and both lists are given.
CompleteUser(p) ==
    /\ p.user_password # NoneVal
    /\ p.user_groups.py = "list"
    /\ p.user_medias.py = "list"

SameButCheckMode(a, b) == [a EXCEPT !.check_mode = FALSE] = [b EXCEPT !.check_mode = FALSE]

\* The previous invocation ran undisturbed from the same table as this one.
PairedWithPrev ==
    /\ Reported /\ ~faulted /\ ~interfered
    /\ prev.inp.state # "none"
    /\ prev.remote0 = remote0

(***************************************************************************)
(* C3: for identical input and identical initial remote state, with no     *)
(* remote call failing, a check-mode invocation reports the same changed   *)
(* value (and the same kind of outcome) as one without check mode.         *)
(***************************************************************************)
C3_DryRunSameVerdict ==
    (PairedWithPrev /\ SameButCheckMode(prev.inp, inp)
        /\ prev.inp.check_mode # inp.check_mode)
        => /\ outcome.changed = prev.outcome.changed
           /\ outcome.kind = prev.outcome.kind

\* A check-mode run and a real run of the same update, from the same table.
C3_Witness ==
    /\ PairedWithPrev /\ SameButCheckMode(prev.inp, inp)
    /\ prev.inp.check_mode /\ ~inp.check_mode
    /\ inp.state = "present"
    /\ Count("update") = 1
    /\ outcome.changed = "true" /\ prev.outcome.changed = "true"

(***************************************************************************)
(* C4: starting with the alias absent, on a server that stores what create *)
(* sends and returns it on later fetches, two consecutive runs without     *)
(* check mode with lifecycle=present and the same desired user yield       *)
(* changed=true (create), then changed=false with no update call.          *)
(***************************************************************************)
\* Servers that answer a fetch with the stored values as they were sent.
EchoKinds == {"plain", "passwd"}

C4_SecondRunUnchanged ==
    (/\ Reported /\ ~faulted /\ ~interfered
     /\ srv \in EchoKinds
     /\ inp.state = "present" /\ ~inp.check_mode
     /\ CompleteUser(inp)
     /\ prev.inp = inp
     /\ Matching(prev.remote0, inp.alias) = <<>>
     /\ prev.remoteEnd = remote0)
        => /\ prev.outcome.kind = "exit_json" /\ prev.outcome.changed = "true"
           /\ outcome.kind = "exit_json" /\ outcome.changed = "false"
           /\ Count("update") = 0

(***************************************************************************)
(* C5: lifecycle=present, no remote match, no check mode: create is called *)
(* exactly once with the desired fields, update and delete are not called, *)
(* and changed=true is reported when the call returns.                     *)
(***************************************************************************)
C5_Case ==
    /\ Reported /\ ~interfered
    /\ inp.state = "present" /\ ~inp.check_mode
    /\ ~ExistedAtStart
    /\ Count("find") >= 1 /\ outcome.msg # "fail_check_exist"

C5_CreateOnceWhenMissing ==
    C5_Case
        => /\ Count("create") = 1
           /\ Count("update") = 0 /\ Count("delete") = 0
           /\ \A i \in 1..Len(calls) :
                 calls[i].op = "create" => calls[i].arg = DesiredFields(inp)
           /\ ~faulted => (outcome.kind = "exit_json" /\ outcome.changed = "true")

C5_Witness ==
    /\ C5_Case /\ ~faulted
    /\ Count("create") = 1
    /\ Matching(remote, inp.alias) # <<>>
    /\ outcome.changed = "true"

(***************************************************************************)
(* C6: lifecycle=present, the alias exists, and the fetched record is      *)
(* field for field the desired user (password aside, media list under the  *)
(* desired user's key): no create, update or delete call is issued and     *)
(* changed=false is reported.                                              *)
(***************************************************************************)
C6_Case ==
    /\ Reported /\ ~interfered
    /\ inp.state = "present"
    /\ cstate # NoDict
    /\ DelKey(cstate, "userid") = Compared(inp)

C6_EqualRecordNoChange ==
    C6_Case
        => /\ NoMutation
           /\ outcome.kind = "exit_json" /\ outcome.changed = "false"

C6_Witness ==
    /\ C6_Case /\ ExistedAtStart
    /\ Count("get") = 1
    /\ outcome.changed = "false"

(***************************************************************************)
(* C7: lifecycle=present, the alias exists, no check mode, and the fetched *)
(* record differs from the desired user in a compared field: update is     *)
(* called exactly once, with the resolved user id and the desired value of *)
(* every differing field, and changed=true is reported when it returns.    *)
(***************************************************************************)
Differing(p, c) ==
    {k \in DOMAIN Compared(p) : ~HasKey(c, k) \/ c[k] # Compared(p)[k]}

C7_Case ==
    /\ Reported
    /\ inp.state = "present" /\ ~inp.check_mode
    /\ cstate # NoDict
    /\ Differing(inp, cstate) # {}

C7_DifferenceUpdatesOnce ==
    C7_Case
        => /\ Count("update") = 1
           /\ Count("create") = 0 /\ Count("delete") = 0
           /\ \A i \in 1..Len(calls) :
                 calls[i].op = "update" =>
                    /\ \A k \in Differing(inp, cstate) :
                          HasKey(calls[i].arg, k) /\ calls[i].arg[k] = Compared(inp)[k]
                    /\ ~interfered =>
                          /\ HasKey(calls[i].arg, "userid")
                          /\ Text(calls[i].arg["userid"])
                                = Text(Matching(remote0, inp.alias)[1]["userid"])
           /\ ~faulted => (outcome.kind = "exit_json" /\ outcome.changed = "true")

\* Scenario B: the server holds theme "default", the desired theme is dark.
C7_Witness ==
    /\ C7_Case /\ ~faulted /\ ~interfered
    /\ Differing(inp, cstate) = {"theme"}
    /\ inp.user_theme = StrVal("dark-theme")
    /\ Count("update") = 1
    /\ Matching(remote, inp.alias)[1]["theme"] = StrVal("dark-theme")
    /\ outcome.changed = "true"

(***************************************************************************)
(* C8: lifecycle=absent, the alias exists, no check mode: delete is called *)
(* exactly once with the id resolved for the alias, no state is fetched,   *)
(* and changed=true is reported when the call returns.                     *)
(***************************************************************************)
C8_Case ==
    /\ Reported /\ ~interfered
    /\ inp.state = "absent" /\ ~inp.check_mode
    /\ ExistedAtStart
    /\ Count("find") >= 1 /\ outcome.msg # "fail_get_id"

C8_DeleteOnceWhenPresent ==
    C8_Case
        => /\ Count("delete") = 1
           /\ Count("find") = 1 /\ Count("get") = 0
           /\ Count("create") = 0 /\ Count("update") = 0
           /\ \A i \in 1..Len(calls) :
                 calls[i].op = "delete" =>
                    calls[i].arg["userid"]
                        = StrVal(Text(Matching(remote0, inp.alias)[1]["userid"]))
           /\ ~faulted => (outcome.kind = "exit_json" /\ outcome.changed = "true")

C8_Witness ==
    /\ C8_Case /\ ~faulted
    /\ Len(remote0) = 2
    /\ Count("delete") = 1
    /\ Len(Matching(remote, inp.alias)) = Len(Matching(remote0, inp.alias)) - 1
    /\ outcome.changed = "true"

(***************************************************************************)
(* C9: every update call carries the desired password.  The code deletes   *)
(* passwd from nstate, which is the very dict it then sends.               *)
(***************************************************************************)
C9_UpdateCarriesPassword ==
    \A i \in 1..Len(calls) :
        calls[i].op = "update" =>
            /\ HasKey(calls[i].arg, "passwd")
            /\ calls[i].arg["passwd"] = inp.user_password

(***************************************************************************)
(* C10: the password is removed from both sides before the comparison:     *)
(* two consecutive lifecycle=present runs on an existing alias that differ *)
(* only in the password, all other fields equal to the remote record, both *)
(* report changed=false, also when the fetched record holds a password.    *)
(***************************************************************************)
RowEquals(row, p) ==
    /\ row["medias"] = Compared(p)["user_medias"]
    /\ \A k \in DOMAIN Compared(p) \ {"user_medias"} : HasKey(row, k) /\ row[k] = Compared(p)[k]

C10_Case ==
    /\ Reported /\ ~faulted /\ ~interfered
    /\ srv \in EchoKinds
    /\ inp.state = "present" /\ CompleteUser(inp)
    /\ prev.inp.state = "present"
    /\ prev.inp.user_password # inp.user_password
    /\ [prev.inp EXCEPT !.user_password = inp.user_password] = inp
    /\ prev.remoteEnd = remote0
    /\ Len(Matching(prev.remote0, inp.alias)) = 1
    /\ RowEquals(Matching(prev.remote0, inp.alias)[1], inp)

C10_PasswordNotCompared ==
    C10_Case => (prev.outcome.changed = "false" /\ outcome.changed = "false")

(***************************************************************************)
(* C11: whenever zbx.login returned, the session is ended (logout) before  *)
(* the invocation finishes, whatever it reported, the logout is the last   *)
(* remote call of the invocation, and no session outlives its process.     *)
(***************************************************************************)
\* zbx.login returned in the running invocation.
Authenticated == Count("login") = 1 /\ outcome.msg # "fail_connect"

C11_LogoutOnEveryExit ==
    /\ (pc = "ended" /\ Authenticated)
          => /\ Count("logout") = 1
             /\ calls[Len(calls)].op = "logout"
             /\ ~session
    /\ (Authenticated /\ pc # "ended") => (session /\ Count("logout") = 0)
    /\ \A i \in 1..Len(calls) : calls[i].op = "logout" => i = Len(calls)
    /\ pc = "idle" => ~session

\* A reported failure after authentication, followed by the logout.
C11_Witness ==
    /\ pc = "ended" /\ Authenticated
    /\ outcome.kind = "fail_json"
    /\ Count("find") >= 1
    /\ calls[Len(calls)].op = "logout"
    /\ ~session

(***************************************************************************)
(* C12: when a remote call of an invocation raises, the invocation has     *)
(* reported a failure by then: the call that raised is the last find, get, *)
(* create, update or delete call it issues (no further call, no retry),    *)
(* and a failing existence check never leads to a create call.             *)
(***************************************************************************)
\* The calls of the engine: all but the logout of the exit handler.
EngineCalls == SelectSeq(calls, LAMBDA c : c.op # "logout")

\* The remote call whose failure a message reports.
FailureOf(msg) ==
    CASE msg = "fail_connect" -> "login"
      [] msg \in {"fail_check_exist", "fail_get_id"} -> "find"
      [] msg = "fail_get_state" -> "get"
      [] msg = "fail_create" -> "create"
      [] msg = "fail_update" -> "update"
      [] msg = "fail_remove" -> "delete"
      [] OTHER -> "none"

C12_FailureEndsInvocation ==
    faulted
        => /\ Reported
           /\ outcome.kind = "fail_json"
           /\ EngineCalls # <<>>
           /\ EngineCalls[Len(EngineCalls)].op = FailureOf(outcome.msg)
           /\ outcome.msg = "fail_check_exist"
                 => (Count("find") = 1 /\ Count("create") = 0)

\* The existence check raises for an alias the server does not hold.
C12_Witness ==
    /\ faulted /\ pc = "ended"
    /\ inp.state = "present" /\ ~inp.check_mode
    /\ ~ExistedAtStart /\ ~interfered
    /\ outcome.msg = "fail_check_exist"
    /\ Count("find") = 1 /\ Count("create") = 0

(***************************************************************************)
(* C13: when the lookup by alias returns more than one record, the         *)
(* invocation reports a failure and issues no update or delete call.  The  *)
(* code takes the first match (result[0]) and proceeds.                    *)
(***************************************************************************)
C13_DuplicateAliasSurfaced ==
    (Undisturbed /\ Len(Matching(remote0, inp.alias)) > 1)
        => /\ outcome.kind = "fail_json"
           /\ Count("update") = 0
           /\ Count("delete") = 0

(***************************************************************************)
(* C14: lifecycle=present, the existence check found the alias (so the     *)
(* update path is entered), and another actor removes the user before the  *)
(* update path resolves its id (line 335), resolves it again (line 264) or *)
(* fetches its state (line 246): the step that meets the missing user ends *)
(* the invocation with a reported failure, and neither an update nor a     *)
(* create call has been issued.                                            *)
(***************************************************************************)
HardFailure ==
    /\ pc = "exit"
    /\ outcome.kind = "fail_json"
    /\ Count("update") = 0
    /\ Count("create") = 0

C14_RaceIsHardFailure ==
    [][ /\ (/\ pc \in {"update_getid", "state_getid"} /\ pc' # pc
            /\ Matching(remote, inp.alias) = <<>>) => HardFailure'
        /\ (/\ pc = "state_fetch" /\ pc' # pc
            /\ ~HasId(remote, uid)) => HardFailure' ]_vars

\* The user is removed between the two id resolutions of the update path.
C14_Witness ==
    /\ pc = "exit"
    /\ inp.state = "present" /\ ExistedAtStart
    /\ interfered /\ ~faulted
    /\ Matching(remote, inp.alias) = <<>>
    /\ Count("find") = 3 /\ Count("get") = 0
    /\ outcome = FailJson("not_exists")
    /\ Count("update") = 0 /\ Count("create") = 0

(***************************************************************************)
(* C15: an invocation with state=absent that gives only the alias (no      *)
(* user_groups, no user_medias, no user_password) authenticates and        *)
(* reaches the lookup: it does not end before any remote call is made.     *)
(* The loops of lines 582-588 iterate over None and raise TypeError.       *)
(***************************************************************************)
\* The 'Remove user' example: the optional parts of the user are omitted.
AliasOnly(p) ==
    /\ p.user_password = NoneVal
    /\ p.user_groups.py = "NoneType"
    /\ p.user_medias.py = "NoneType"

C15_AbsentNeedsAliasOnly ==
    (Reported /\ inp.state = "absent" /\ AliasOnly(inp))
        => /\ Count("login") = 1
           /\ outcome.kind # "uncaught"

(***************************************************************************)
(* C16: on the update path, a fetched record that equals the desired user  *)
(* on every mapped field and also carries a field without a mapping is     *)
(* judged equal: no update call, changed=false.  The code compares the     *)
(* fetched dict as it came, extra keys included.                           *)
(***************************************************************************)
\* The keys of a fetched record that the desired user has a field for.
MappedKeys(p) == DOMAIN DesiredFields(p) \cup {"userid"}

C16_Case ==
    /\ Reported /\ ~faulted /\ ~interfered
    /\ inp.state = "present"
    /\ cstate # NoDict
    /\ Project(cstate, DOMAIN Compared(inp)) = Compared(inp)
    /\ DOMAIN cstate \ MappedKeys(inp) # {}

C16_UnmappedFieldIgnored ==
    C16_Case
        => /\ Count("update") = 0
           /\ outcome.kind = "exit_json" /\ outcome.changed = "false"

(***************************************************************************)
(* C17: a fetched record that mirrors the desired user with the server's   *)
(* type conventions (numbers for rows_per_page, type, usrgrpid,            *)
(* mediatypeid and severity) normalizes to the desired user: no update     *)
(* call, changed=false.  The code converts the desired side only.          *)
(***************************************************************************)
\* The canonical text form of a scalar: a number becomes its digits.
Canonical(x) == IF x[1] = "int" THEN StrVal(x[2]) ELSE x

CanonicalList(l) == [i \in 1..Len(l) |-> [k \in DOMAIN l[i] |-> Canonical(l[i][k])]]

\* The normalized form of a fetched record.
Normalized(c) ==
    [k \in DOMAIN c |->
        IF k \in {"usrgrps", "user_medias"} THEN CanonicalList(c[k]) ELSE Canonical(c[k])]

C17_Case ==
    /\ Reported /\ ~faulted /\ ~interfered
    /\ inp.state = "present"
    /\ cstate # NoDict
    /\ DelKey(cstate, "userid") # Compared(inp)
    /\ Normalized(DelKey(cstate, "userid")) = Compared(inp)

C17_NativeNumbersEqual ==
    C17_Case
        => /\ Count("update") = 0
           /\ outcome.kind = "exit_json" /\ outcome.changed = "false"

(***************************************************************************)
(* C18: lifecycle=present for an existing alias with an empty desired      *)
(* media list still reaches an update / no-op verdict.  The code reads     *)
(* medias[0] (line 244) and ends with 'Failed to update the user'.         *)
(***************************************************************************)
C18_EmptyMediaReachesVerdict ==
    (/\ Undisturbed
     /\ inp.state = "present" /\ ExistedAtStart
     /\ CompleteUser(inp)
     /\ inp.user_medias.items = <<>>)
        => /\ outcome.kind = "exit_json"
           /\ outcome.changed \in {"true", "false"}
           /\ Count("get") = 1

(***************************************************************************)
(* C19: a failure is reported as a failure of create, update or delete     *)
(* only when that call was issued and raised.  The code reports 'Failed to *)
(* update the user' for an IndexError raised before any update call.       *)
(***************************************************************************)
MutationFailures == {"fail_create", "fail_update", "fail_remove"}

C19_MutationFailureMeansCall ==
    (Reported /\ outcome.msg \in MutationFailures)
        => /\ faulted
           /\ Count(FailureOf(outcome.msg)) = 1
           /\ EngineCalls[Len(EngineCalls)].op = FailureOf(outcome.msg)

(***************************************************************************)
(* C20: groups and medias are compared as ordered sequences: when the      *)
(* fetched record holds the desired group (or media) entries in another    *)
(* order and equals the desired user in every other field, a               *)
(* lifecycle=present invocation calls update once and reports              *)
(* changed=true when the call returns.                                     *)
(***************************************************************************)
ListFields == {"usrgrps", "user_medias"}

C20_Case ==
    /\ Reported
    /\ inp.state = "present"
    /\ cstate # NoDict
    /\ DOMAIN cstate = DOMAIN Compared(inp) \cup {"userid"}
    /\ Differing(inp, cstate) # {}
    /\ Differing(inp, cstate) \subseteq ListFields
    /\ \A k \in Differing(inp, cstate) : SameEntries(cstate[k], Compared(inp)[k])

C20_OrderMatters ==
    C20_Case
        => /\ Count("update") = 1
           /\ Count("create") = 0 /\ Count("delete") = 0
           /\ ~faulted => (outcome.kind = "exit_json" /\ outcome.changed = "true")

\* The server holds groups 8, 7 and the desired groups are 7, 8.
C20_Witness ==
    /\ C20_Case /\ ~faulted /\ ~interfered
    /\ Differing(inp, cstate) = {"usrgrps"}
    /\ cstate["usrgrps"] = Reverse(Compared(inp)["usrgrps"])
    /\ Count("update") = 1
    /\ Matching(remote, inp.alias)[1]["usrgrps"] = Compared(inp)["usrgrps"]
    /\ outcome.changed = "true"

(***************************************************************************)
(* C21: an invocation without check mode issues at most one create, update *)
(* or delete call; it reports changed=true only after exactly one such     *)
(* call, its last engine call, which returned (no call of the invocation   *)
(* raised); and it reports changed=false only when it issued none.         *)
(***************************************************************************)
MutatingCalls == SelectSeq(calls, LAMBDA c : c.op \in Mutating)

C21_OneMutationPerVerdict ==
    ~inp.check_mode
        => /\ Len(MutatingCalls) <= 1
           /\ outcome.changed = "true"
                 => /\ Len(MutatingCalls) = 1
                    /\ EngineCalls[Len(EngineCalls)].op \in Mutating
                    /\ ~faulted
           /\ (faulted /\ MutatingCalls # <<>>) => outcome.kind = "fail_json"
           /\ outcome.changed = "false" => MutatingCalls = <<>>

\* A delete call raises: one mutating call, and a failure, not changed=true.
C21_Witness ==
    /\ pc = "ended"
    /\ inp.state = "absent" /\ ~inp.check_mode
    /\ faulted
    /\ Len(MutatingCalls) = 1 /\ Count("delete") = 1
    /\ outcome = FailJson("fail_remove")

=============================================================================
